---------------------------- MODULE Spec2Model ----------------------------
(***************************************************************************)
(* Model of the edge-to-polynomial pipeline of code_of_eyes:               *)
(*   getEdges, segmentEdges        (src/services/imageProcessor.ts)        *)
(*   solveMatrix, fitPolynomial, simplifyPoints   (src/unnamed/part_001)   *)
(*   processImage                  (src/unnamed/part_000)                  *)
(*                                                                         *)
(* Numbers.  JavaScript numbers are IEEE doubles.  The model computes with *)
(* exact values: integers where the code only adds, subtracts and          *)
(* multiplies integers, and extended rationals <<n, d>> elsewhere          *)
(* (d > 0 a finite value n/d in lowest terms, <<1,0>> = Infinity,          *)
(* <<-1,0>> = -Infinity, <<0,0>> = NaN).  Rounding error is not modelled;  *)
(* the non-finite values and the comparisons with NaN are.                 *)
(* Sequences are 1-based here and 0-based in the source: source index i is *)
(* model index i + 1.                                                      *)
(***************************************************************************)
EXTENDS Integers, Sequences, FiniteSets, TLC

VARIABLES
    pc,          \* position of the call or of processImage
    canvas,      \* [width, height, data]: the pixel buffer read by getEdges
    threshold,   \* getEdges' threshold (state.edgeDensity)
    edges,       \* getEdges' return value
    points,      \* the Point[] argument of the function under call
    maxGap,      \* segmentEdges' maxGap
    paths,       \* segmentEdges' return value (segmentedPaths)
    topPaths,    \* processImage's topPaths
    epsilon,     \* simplifyPoints' epsilon
    simplified,  \* simplifyPoints' return value
    degree,      \* fitPolynomial's degree (state.rationalIntensity)
    fit,         \* fitPolynomial's return value
    results,     \* processImage's results (fittingResults)
    mode         \* state.mode

vars == <<pc, canvas, threshold, edges, points, maxGap, paths, topPaths,
          epsilon, simplified, degree, fit, results, mode>>

-----------------------------------------------------------------------------
(* Extended rational arithmetic: the double operations the code uses.      *)

AbsInt(n) == IF n < 0 THEN -n ELSE n

SignInt(n) == IF n > 0 THEN 1 ELSE IF n < 0 THEN -1 ELSE 0

RECURSIVE Gcd(_, _)
Gcd(a, b) == IF b = 0 THEN a ELSE Gcd(b, a % b)

\* n/d as a value: lowest terms, d > 0; d = 0 gives Infinity, -Infinity or NaN.
Norm(n, d) ==
    IF d = 0 THEN <<SignInt(n), 0>>
    ELSE LET g == Gcd(AbsInt(n), AbsInt(d))
             s == SignInt(d)
         IN  <<(s * n) \div g, (s * d) \div g>>

Num(n) == <<n, 1>>

NaN == <<0, 0>>

IsNaN(a) == a = NaN

IsFinite(a) == a[2] # 0

\* a + b (Infinity + -Infinity = NaN)
Add(a, b) ==
    IF IsNaN(a) \/ IsNaN(b) THEN NaN
    ELSE IF a[2] = 0 /\ b[2] = 0 THEN (IF a[1] = b[1] THEN a ELSE NaN)
    ELSE IF a[2] = 0 THEN a
    ELSE IF b[2] = 0 THEN b
    ELSE LET g == Gcd(a[2], b[2])
         IN  Norm(a[1] * (b[2] \div g) + b[1] * (a[2] \div g), (a[2] \div g) * b[2])

Neg(a) == <<-a[1], a[2]>>

\* a - b
Sub(a, b) == Add(a, Neg(b))

\* a * b (0 * Infinity = NaN); common factors are cancelled before the
\* products are formed
Mul(a, b) ==
    IF a[2] = 0 \/ b[2] = 0 THEN Norm(a[1] * b[1], 0)
    ELSE LET g1 == Gcd(AbsInt(a[1]), b[2])
             g2 == Gcd(AbsInt(b[1]), a[2])
         IN  Norm((a[1] \div g1) * (b[1] \div g2), (a[2] \div g2) * (b[2] \div g1))

\* a / b.  Every zero the code divides by is +0 (sums start at +0 and a
\* difference of equal doubles is +0), so x / 0 has the sign of x.
Div(a, b) ==
    IF IsNaN(b) THEN NaN
    ELSE IF b[2] = 0 THEN Mul(a, Num(0))
    ELSE IF b[1] = 0 THEN Norm(a[1], 0)
    ELSE Mul(a, Norm(b[2], b[1]))

\* Math.abs
Abs(a) == <<AbsInt(a[1]), a[2]>>

\* a > b; false when either is NaN
Gt(a, b) ==
    /\ ~IsNaN(a)
    /\ ~IsNaN(b)
    /\ IF a[2] = 0 /\ b[2] = 0 THEN a[1] > b[1]
       ELSE IF a[2] = 0 THEN a[1] > 0
       ELSE IF b[2] = 0 THEN b[1] < 0
       ELSE a[1] * b[2] > b[1] * a[2]

\* Math.pow(a, k) for an integer k >= 0; Math.pow(x, 0) is 1 for every x
RECURSIVE Pow(_, _)
Pow(a, k) == IF k = 0 THEN Num(1) ELSE Mul(a, Pow(a, k - 1))

-----------------------------------------------------------------------------
(* Points                                                                  *)

Pt(px, py) == [x |-> px, y |-> py]

Last(s) == s[Len(s)]

\* s.slice(from, to) with 0-based from (inclusive) and to (exclusive)
Slice(s, from, to) == SubSeq(s, from + 1, to)

-----------------------------------------------------------------------------
(* simplifyPoints (Douglas-Peucker), src/unnamed/part_001:96-122           *)

\* A distance n / sqrt(q) with integers n >= 0 and q >= 0, as the quotient
\* of findPerpendicularDistance leaves it: 0/sqrt(0) is NaN, n/sqrt(0) with
\* n > 0 is Infinity.
Dist(n, q) == [n |-> n, q |-> q]

DistIsNaN(d) == d.n = 0 /\ d.q = 0

\* d1 > d2 on such distances; false when either is NaN
DistGt(d1, d2) ==
    /\ ~DistIsNaN(d1)
    /\ ~DistIsNaN(d2)
    /\ IF d1.q = d2.q THEN d1.n > d2.n
       ELSE d1.n * d1.n * d2.q > d2.n * d2.n * d1.q

\* Math.abs(dy * p.x - dx * p.y + p2.x * p1.y - p2.y * p1.x) / Math.sqrt(dx * dx + dy * dy)
findPerpendicularDistance(p, p1, p2) ==
    LET dx == p2.x - p1.x
        dy == p2.y - p1.y
    IN  Dist(AbsInt(dy * p.x - dx * p.y + p2.x * p1.y - p2.y * p1.x),
             dx * dx + dy * dy)

\* One iteration of the loop of lines 107-113, at source index i:
\* if (d > dmax) { index = i; dmax = d; }
FarthestStep(pts, i, st) ==
    LET d == findPerpendicularDistance(pts[i + 1], pts[1], pts[Len(pts)])
    IN  IF DistGt(d, st.dmax) THEN [index |-> i, dmax |-> d] ELSE st

\* The iterations lo .. hi - 1 of that loop, in order, from loop state st.
\* The range is run as its first half followed by its second half, and the
\* test on `left` makes TLC finish the first half before it starts the
\* second: both only keep the evaluation shallow.
RECURSIVE FarthestLoop(_, _, _, _)
FarthestLoop(pts, lo, hi, st) ==
    IF hi <= lo THEN st
    ELSE IF hi = lo + 1 THEN FarthestStep(pts, lo, st)
    ELSE LET mid == (lo + hi) \div 2
             left == FarthestLoop(pts, lo, mid, st)
         IN  IF DOMAIN left = {} THEN left ELSE FarthestLoop(pts, mid, hi, left)

\* lines 105-113: let dmax = 0, index = 0; for (i = 1; i < points.length - 1; i++)
Farthest(pts) == FarthestLoop(pts, 1, Len(pts) - 1, [index |-> 0, dmax |-> Dist(0, 1)])

\* Mutant of ExceedsEpsilon: the comparison inverted, a split where the
\* farthest point is off the line but within epsilon.
ExceedsEpsilonInverted(dmax, eps) ==
    DistGt(dmax, Dist(0, 1)) /\ ~DistGt(dmax, Dist(eps, 1))

\* dmax > epsilon (line 115), epsilon an integer
ExceedsEpsilon(dmax, eps) ==
    IF eps < 0 THEN ~DistIsNaN(dmax) ELSE DistGt(dmax, Dist(eps, 1))

\* Mutant of MergeResults: the shared pivot kept twice.
MergeKeepPivot(r1, r2) == r1 \o r2

\* [...recursiveResults1.slice(0, -1), ...recursiveResults2] (line 118)
MergeResults(r1, r2) == Slice(r1, 0, Len(r1) - 1) \o r2

\* Mutant of Collapse: the segment collapsed to its first point only.
CollapseToFirst(pts) == <<pts[1]>>

\* [points[0], points[points.length - 1]] (line 120)
Collapse(pts) == <<pts[1], pts[Len(pts)]>>

RECURSIVE simplifyPoints(_, _)
simplifyPoints(pts, eps) ==
    IF Len(pts) <= 2 THEN pts
    ELSE LET far == Farthest(pts)
         IN  IF ExceedsEpsilon(far.dmax, eps)
             THEN MergeResults(simplifyPoints(Slice(pts, 0, far.index + 1), eps),
                               simplifyPoints(Slice(pts, far.index, Len(pts)), eps))
             ELSE Collapse(pts)

-----------------------------------------------------------------------------
(* getEdges, src/services/imageProcessor.ts:4-36                           *)

\* canvas.data is the flat RGBA byte array of getImageData, 4 bytes a pixel.
\* gray[i / 4] = (data[i] + data[i + 1] + data[i + 2]) / 3 is kept as the
\* integer 3 * gray (the Float32Array rounding of a third is not modelled;
\* alpha, data[i + 3], is never read).
Gray3(cv, idx) ==
    cv.data[4 * idx + 1] + cv.data[4 * idx + 2] + cv.data[4 * idx + 3]

\* Mutant of IsEdge: mag >= threshold.
IsEdgeInclusive(cv, thr, idx) ==
    LET gx3 == Gray3(cv, idx + 1) - Gray3(cv, idx - 1)
        gy3 == Gray3(cv, idx + cv.width) - Gray3(cv, idx - cv.width)
    IN  IF thr <= 0 THEN TRUE
        ELSE gx3 * gx3 + gy3 * gy3 >= 9 * thr * thr

\* mag > threshold at source index idx, mag = sqrt(gx * gx + gy * gy),
\* threshold an integer: both sides scaled by 3 and squared.
IsEdge(cv, thr, idx) ==
    LET gx3 == Gray3(cv, idx + 1) - Gray3(cv, idx - 1)
        gy3 == Gray3(cv, idx + cv.width) - Gray3(cv, idx - cv.width)
    IN  IF thr < 0 THEN TRUE
        ELSE gx3 * gx3 + gy3 * gy3 > 9 * thr * thr

\* The pixels the two loops of lines 22-33 visit, in the order they visit
\* them: y = 1 .. h - 2, and for each y, x = 1 .. w - 2.
InteriorPixels(cv) ==
    IF cv.width < 3 \/ cv.height < 3 THEN <<>>
    ELSE [k \in 1..((cv.width - 2) * (cv.height - 2)) |->
             Pt(1 + ((k - 1) % (cv.width - 2)), 1 + ((k - 1) \div (cv.width - 2)))]

\* lines 22-33: edges.push({ x, y }) for each visited pixel with mag > threshold
getEdges(cv, thr) ==
    IF ~cv.ctx THEN <<>>
    ELSE LET Pushed(p) == IsEdge(cv, thr, p.y * cv.width + p.x)
         IN  SelectSeq(InteriorPixels(cv), Pushed)

-----------------------------------------------------------------------------
(* segmentEdges, src/services/imageProcessor.ts:41-65                      *)

\* how many elements of sorted (ascending by key) have a key <= key, by
\* bisection of lo .. hi
RECURSIVE CountUpTo(_, _, _, _)
CountUpTo(sorted, key, lo, hi) ==
    IF lo > hi THEN lo - 1
    ELSE LET mid == (lo + hi) \div 2
         IN  IF sorted[mid].key <= key THEN CountUpTo(sorted, key, mid + 1, hi)
             ELSE CountUpTo(sorted, key, lo, mid - 1)

\* Array.prototype.sort is stable: an element goes behind every element
\* whose key is not greater than its own.  Elements are [key, val] pairs,
\* key the number the comparator orders by.
InsertByKey(sorted, e) ==
    LET c == CountUpTo(sorted, e.key, 1, Len(sorted))
    IN  SubSeq(sorted, 1, c) \o <<e>> \o SubSeq(sorted, c + 1, Len(sorted))

\* the insertions of the elements lo .. hi (1-based) of s, in order, into
\* acc (first half, then second half, as in FarthestLoop)
RECURSIVE StableSortLoop(_, _, _, _)
StableSortLoop(s, lo, hi, acc) ==
    IF hi < lo THEN acc
    ELSE IF hi = lo THEN InsertByKey(acc, s[lo])
    ELSE LET mid == (lo + hi) \div 2
             left == StableSortLoop(s, lo, mid, acc)
         IN  IF Len(left) = 0 THEN left ELSE StableSortLoop(s, mid + 1, hi, left)

StableSort(keyed) ==
    LET sorted == StableSortLoop(keyed, 1, Len(keyed), <<>>)
    IN  [i \in 1..Len(sorted) |-> sorted[i].val]

\* Mutant of SortByX: a sort that is not stable (equal x come out in the
\* reverse of the original order).
SortByXReversingTies(pts) ==
    StableSort([i \in 1..Len(pts) |->
                   [key |-> pts[Len(pts) + 1 - i].x, val |-> pts[Len(pts) + 1 - i]]])

\* [...points].sort((a, b) => a.x - b.x)
SortByX(pts) ==
    StableSort([i \in 1..Len(pts) |-> [key |-> pts[i].x, val |-> pts[i]]])

\* the 20 of `currentPath.length > 20` (lines 58 and 62)
MinPathLen == 20

\* Mutant of LongEnough: a path of exactly 20 points committed too.
LongEnoughOffByOne(path) == Len(path) >= MinPathLen

\* currentPath.length > 20
LongEnough(path) == Len(path) > MinPathLen

\* Mutant of WithinGap: a point at distance exactly maxGap appended too.
WithinGapInclusive(last, curr, gap) ==
    LET dx == curr.x - last.x
        dy == curr.y - last.y
    IN  gap > 0 /\ dx * dx + dy * dy <= gap * gap

\* dist < maxGap, dist = sqrt((curr.x - last.x)^2 + (curr.y - last.y)^2),
\* maxGap an integer: both sides squared.
WithinGap(last, curr, gap) ==
    LET dx == curr.x - last.x
        dy == curr.y - last.y
    IN  gap > 0 /\ dx * dx + dy * dy < gap * gap

\* if (currentPath.length > 20) paths.push(currentPath)
Commit(ps, currentPath) ==
    IF LongEnough(currentPath) THEN Append(ps, currentPath) ELSE ps

\* One iteration of the loop of lines 50-61, at source index i, on the loop
\* state st = [currentPath, paths].
SegmentStep(sorted, i, st, gap) ==
    LET last == st.currentPath[Len(st.currentPath)]
        curr == sorted[i + 1]
    IN  IF WithinGap(last, curr, gap)
        THEN [currentPath |-> Append(st.currentPath, curr), paths |-> st.paths]
        ELSE [currentPath |-> <<curr>>, paths |-> Commit(st.paths, st.currentPath)]

\* The iterations lo .. hi - 1 of that loop, in order, from loop state st
\* (first half, then second half, as in FarthestLoop).
RECURSIVE SegmentLoop(_, _, _, _, _)
SegmentLoop(sorted, lo, hi, st, gap) ==
    IF hi <= lo THEN st
    ELSE IF hi = lo + 1 THEN SegmentStep(sorted, lo, st, gap)
    ELSE LET mid == (lo + hi) \div 2
             left == SegmentLoop(sorted, lo, mid, st, gap)
         IN  IF DOMAIN left = {} THEN left ELSE SegmentLoop(sorted, mid, hi, left, gap)

segmentEdges(pts, gap) ==
    IF Len(pts) = 0 THEN <<>>
    ELSE LET sorted == SortByX(pts)
             st == SegmentLoop(sorted, 1, Len(sorted),
                               [currentPath |-> <<sorted[1]>>, paths |-> <<>>], gap)
         IN  Commit(st.paths, st.currentPath)

-----------------------------------------------------------------------------
(* processImage's selection of the paths to fit, src/unnamed/part_000:78-80 *)

\* the 5 of slice(0, 5) (line 80)
MaxPaths == 5

\* Mutant of SortByLengthDesc: ascending, (a, b) => a.length - b.length.
SortByLengthAsc(ps) ==
    StableSort([i \in 1..Len(ps) |-> [key |-> Len(ps[i]), val |-> ps[i]]])

\* segmentedPaths.sort((a, b) => b.length - a.length): in place, stable
SortByLengthDesc(ps) ==
    StableSort([i \in 1..Len(ps) |-> [key |-> -Len(ps[i]), val |-> ps[i]]])

\* .slice(0, 5)
TopSlice(ps) == Slice(ps, 0, IF Len(ps) < MaxPaths THEN Len(ps) ELSE MaxPaths)

-----------------------------------------------------------------------------
(* solveMatrix, src/unnamed/part_001:6-34                                  *)

\* lines 9-12: the first row of greatest |A[j][i]| from row i down
RECURSIVE PivotLoop(_, _, _, _)
PivotLoop(A, i, j, max) ==
    IF j >= Len(A) THEN max
    ELSE PivotLoop(A, i, j + 1,
                   IF Gt(Abs(A[j + 1][i + 1]), Abs(A[max + 1][i + 1])) THEN j ELSE max)

\* lines 13-14: [s[i], s[max]] = [s[max], s[i]]
Swap(s, i, max) == [s EXCEPT ![i + 1] = s[max + 1], ![max + 1] = s[i + 1]]

\* lines 16-22 for one row j: factor is read before the row changes
EliminateRow(A, B, i, j) ==
    LET factor == Div(A[j + 1][i + 1], A[i + 1][i + 1])
    IN  [A |-> [A EXCEPT ![j + 1] =
                   [k \in 1..Len(A) |->
                       IF k - 1 >= i THEN Sub(A[j + 1][k], Mul(factor, A[i + 1][k]))
                       ELSE A[j + 1][k]]],
         B |-> [B EXCEPT ![j + 1] = Sub(B[j + 1], Mul(factor, B[i + 1]))]]

RECURSIVE EliminateLoop(_, _, _, _)
EliminateLoop(A, B, i, j) ==
    IF j >= Len(B) THEN [A |-> A, B |-> B]
    ELSE LET r == EliminateRow(A, B, i, j)
         IN  EliminateLoop(r.A, r.B, i, j + 1)

\* lines 8-23 from column i on
RECURSIVE ForwardLoop(_, _, _)
ForwardLoop(A, B, i) ==
    IF i >= Len(B) THEN [A |-> A, B |-> B]
    ELSE LET max == PivotLoop(A, i, i + 1, i)
             r == EliminateLoop(Swap(A, i, max), Swap(B, i, max), i, i + 1)
         IN  ForwardLoop(r.A, r.B, i + 1)

\* lines 27-30: sum of A[i][j] * x[j] for j > i
RECURSIVE RowSum(_, _, _, _, _)
RowSum(A, x, i, j, sum) ==
    IF j >= Len(x) THEN sum
    ELSE RowSum(A, x, i, j + 1, Add(sum, Mul(A[i + 1][j + 1], x[j + 1])))

\* lines 26-32 from row i down to row 0
RECURSIVE BackLoop(_, _, _, _)
BackLoop(A, B, x, i) ==
    IF i < 0 THEN x
    ELSE BackLoop(A, B,
                  [x EXCEPT ![i + 1] =
                      Div(Sub(B[i + 1], RowSum(A, x, i, i + 1, Num(0))), A[i + 1][i + 1])],
                  i - 1)

\* What the call leaves: A and B as eliminated in place, and the returned x.
SolveState(A, B) ==
    LET n == Len(B)
        r == ForwardLoop(A, B, 0)
    IN  [A |-> r.A, B |-> r.B,
         x |-> BackLoop(r.A, r.B, [k \in 1..n |-> Num(0)], n - 1)]

solveMatrix(A, B) == SolveState(A, B).x

-----------------------------------------------------------------------------
(* fitPolynomial, src/unnamed/part_001:39-91                               *)

\* the step of the curve sampling loop (line 81)
CurveStep == 5

\* the sentinel of lines 40-42
InsufficientData ==
    [formula |-> [head |-> "Insufficient Data", parts |-> <<>>],
     points |-> <<>>, coefficients |-> <<>>, type |-> "polynomial"]

\* Mutant of Normalize: y left in pixels.
NormalizeXOnly(pts, width, height) ==
    [k \in 1..Len(pts) |->
        [x |-> Div(Num(pts[k].x), Num(width)), y |-> Num(pts[k].y)]]

\* points.map(p => ({ x: p.x / width, y: p.y / height }))
Normalize(pts, width, height) ==
    [k \in 1..Len(pts) |->
        [x |-> Div(Num(pts[k].x), Num(width)), y |-> Div(Num(pts[k].y), Num(height))]]

\* a sum that starts at 0 and adds Term(k) for k = from .. to (to = Len)
RECURSIVE SumLoop(_, _, _)
SumLoop(terms, k, sum) ==
    IF k > Len(terms) THEN sum ELSE SumLoop(terms, k + 1, Add(sum, terms[k]))

Sum(terms) == SumLoop(terms, 1, Num(0))

\* lines 51-58: A[i][j] = sum of pow(p.x, i + j)
NormalA(np, n) ==
    [i \in 1..n |-> [j \in 1..n |->
        Sum([k \in 1..Len(np) |-> Pow(np[k].x, (i - 1) + (j - 1))])]]

\* lines 59-63: B[i] = sum of pow(p.x, i) * p.y
NormalB(np, n) ==
    [i \in 1..n |-> Sum([k \in 1..Len(np) |-> Mul(Pow(np[k].x, i - 1), np[k].y)])]

\* c.toFixed(2) as the number of hundredths it prints (half away from zero);
\* "Infinity", "-Infinity" and "NaN" stay as they are.  The sign of a printed
\* "-0.00" is not kept.
ToFixed2(c) ==
    IF ~IsFinite(c) THEN c
    ELSE Num(SignInt(c[1]) * ((200 * AbsInt(c[1]) + c[2]) \div (2 * c[2])))

\* lines 69-77: the terms of "f(x) = ...", highest power first; a part is
\* the printed coefficient and the power of x it multiplies, " + " between.
Formula(coefficients) ==
    LET n == Len(coefficients)
    IN  [head |-> "f(x) = ",
         parts |-> [k \in 1..n |->
                      [val |-> ToFixed2(coefficients[n + 1 - k]), pow |-> n - k]]]

\* lines 83-86: sum of coefficients[i] * pow(nx, i)
Evaluate(coefficients, nx) ==
    Sum([i \in 1..Len(coefficients) |-> Mul(coefficients[i], Pow(nx, i - 1))])

\* lines 80-88: one curve point for x = 0, 5, 10, ... while x <= width
Curve(coefficients, width, height) ==
    IF width < 0 THEN <<>>
    ELSE [k \in 1..((width \div CurveStep) + 1) |->
             LET x == CurveStep * (k - 1)
             IN  [x |-> x,
                  y |-> Mul(Evaluate(coefficients, Div(Num(x), Num(width))),
                            Num(height))]]

\* Mutant of TooFew: points.length < degree.
TooFewOffByOne(pts, deg) == Len(pts) < deg

\* points.length < degree + 1 (line 40)
TooFew(pts, deg) == Len(pts) < deg + 1

fitPolynomial(pts, deg, width, height) ==
    IF TooFew(pts, deg) THEN InsufficientData
    ELSE LET normPoints == Normalize(pts, width, height)
             n == deg + 1
             coefficients == solveMatrix(NormalA(normPoints, n), NormalB(normPoints, n))
         IN  [formula |-> Formula(coefficients),
              points |-> Curve(coefficients, width, height),
              coefficients |-> coefficients,
              type |-> "polynomial"]

-----------------------------------------------------------------------------
(* Values of the variables a call does not use                             *)

NoCanvas == [width |-> 0, height |-> 0, data |-> <<>>, ctx |-> FALSE]

NoFit == [formula |-> [head |-> "", parts |-> <<>>],
          points |-> <<>>, coefficients |-> <<>>, type |-> ""]

\* all sequences over S of length 0 .. n
SeqsUpTo(S, n) == UNION {[1..k -> S] : k \in 0..n}

-----------------------------------------------------------------------------
(* SpecSimplify: one call simplifyPoints(points, epsilon)                  *)

\* longest path of free grid points
MaxLen == 4

\* largest x of a grid point
MaxX == 2

GridPoints == {Pt(px, py) : px \in 0..MaxX, py \in 0..1}

\* largest epsilon
MaxEps == 2

Epsilons == 0..MaxEps

\* Paths of collinear points (x = 0 .. n - 1, y = 0) with the point of source
\* index k lifted by off: the lengths 3 .. MaxSpikeLen with small offsets,
\* and the length and offset of the 100-point scenario.
MaxSpikeLen == 6

ScenarioLen == 100

ScenarioOffset == 50

SpikePath(n, k, off) == [i \in 1..n |-> Pt(i - 1, IF i - 1 = k THEN off ELSE 0)]

SpikePaths ==
    {SpikePath(t[1], t[2], t[3]) :
        t \in {u \in (3..MaxSpikeLen) \X (1..MaxSpikeLen) \X (1..3) : u[2] <= u[1] - 2}}
    \cup {SpikePath(ScenarioLen, k, ScenarioOffset) : k \in 1..(ScenarioLen - 2)}

InitSimplify ==
    /\ pc = "simplifyPoints"
    /\ points \in SeqsUpTo(GridPoints, MaxLen) \cup SpikePaths
    /\ epsilon \in Epsilons
    /\ canvas = NoCanvas /\ threshold = 0 /\ edges = <<>> /\ maxGap = 0
    /\ paths = <<>> /\ topPaths = <<>> /\ simplified = <<>> /\ degree = 0
    /\ fit = NoFit /\ results = <<>> /\ mode = "NATURAL"

CallSimplifyPoints ==
    /\ pc = "simplifyPoints"
    /\ simplified' = simplifyPoints(points, epsilon)
    /\ pc' = "done"
    /\ UNCHANGED <<canvas, threshold, edges, points, maxGap, paths, topPaths,
                   epsilon, degree, fit, results, mode>>

NextSimplify == CallSimplifyPoints

SpecSimplify == InitSimplify /\ [][NextSimplify]_vars

(* Properties of simplifyPoints                                            *)

\* the least element of a non-empty set of integers
Min(S) == CHOOSE m \in S : \A o \in S : m <= o

\* a[k ..] can be read off b[pos + 1 ..] in order
RECURSIVE MatchFrom(_, _, _, _)
MatchFrom(a, b, k, pos) ==
    IF k > Len(a) THEN TRUE
    ELSE LET C == {j \in (pos + 1)..Len(b) : b[j] = a[k]}
         IN  C # {} /\ MatchFrom(a, b, k + 1, Min(C))

\* a is a subsequence of b
IsSubseq(a, b) == MatchFrom(a, b, 1, 0)

\* twice the signed area of the triangle a, b, p
Cross(p, a, b) == (b.y - a.y) * (p.x - a.x) - (b.x - a.x) * (p.y - a.y)

SqDist(a, b) == (b.x - a.x) * (b.x - a.x) + (b.y - a.y) * (b.y - a.y)

\* p is within eps of the line through a and b, of the point a when a = b
WithinEps(p, a, b, eps) ==
    IF a = b THEN SqDist(p, a) <= eps * eps
    ELSE Cross(p, a, b) * Cross(p, a, b) <= eps * eps * SqDist(a, b)

\* C3: the output of simplifyPoints is a subsequence of the input, no longer
\* than it, with the input's first and last point as its first and last
\* point; an input of 2 or fewer points is returned unchanged.
C3_SubsequenceWithEndpoints ==
    pc = "done" =>
        /\ IsSubseq(simplified, points)
        /\ Len(simplified) <= Len(points)
        /\ Len(points) > 0 =>
              /\ Len(simplified) > 0
              /\ simplified[1] = points[1]
              /\ simplified[Len(simplified)] = points[Len(points)]
        /\ Len(points) <= 2 => simplified = points

\* C3 witness: a path of 4 points simplified to 3, an interior point dropped
\* and another kept.
C3_Witness ==
    /\ pc = "done"
    /\ Len(points) = 4
    /\ Len(simplified) = 3
    /\ simplified[2] = points[3]

\* The retained vertices out[k ..] can be placed on the input from index i on
\* (out[k] at i, the last one at the end of the input) so that every input
\* point between two consecutive retained vertices is within eps of the piece
\* joining them.
RECURSIVE CoverFrom(_, _, _, _, _)
CoverFrom(pts, out, eps, k, i) ==
    IF k = Len(out) THEN i = Len(pts)
    ELSE \E j \in (i + 1)..Len(pts) :
            /\ pts[j] = out[k + 1]
            /\ \A m \in i..j : WithinEps(pts[m], out[k], out[k + 1], eps)
            /\ CoverFrom(pts, out, eps, k + 1, j)

\* C4 (as claimed): no input point deviates from the simplified polyline by
\* more than epsilon.  The deviation from a piece is measured as the code
\* measures it, to the line through the two vertices, and to the vertex where
\* the two coincide; the distance to the piece itself is never smaller.
C4_WithinEpsilonOfPolyline ==
    (pc = "done" /\ Len(points) > 2) =>
        /\ Len(simplified) >= 1
        /\ simplified[1] = points[1]
        /\ CoverFrom(points, simplified, epsilon, 1, 1)

\* C5: the output is no longer for a larger epsilon than for a smaller one.
C5_LengthNonIncreasingInEpsilon ==
    pc = "done" =>
        \A e \in Epsilons :
            e >= epsilon => Len(simplifyPoints(points, e)) <= Len(simplified)

\* C5 witness: a larger epsilon gives a strictly shorter output.
C5_Witness ==
    /\ pc = "done"
    /\ \E e \in Epsilons :
          e > epsilon /\ Len(simplifyPoints(points, e)) < Len(simplified)

\* pts is a path of points on the line through its two (distinct) end points,
\* except for the interior point pts[k], which is more than eps off that line.
IsSpike(pts, eps, k) ==
    /\ Len(pts) >= 3
    /\ k \in 2..(Len(pts) - 1)
    /\ pts[1] # pts[Len(pts)]
    /\ \A j \in 1..Len(pts) : j # k => Cross(pts[j], pts[1], pts[Len(pts)]) = 0
    /\ ~WithinEps(pts[k], pts[1], pts[Len(pts)], eps)

\* C8 (as claimed): a path of collinear points with one interior point
\* displaced by more than epsilon is simplified to exactly 3 points, the two
\* end points and the displaced point.
C8_SpikeGivesThreePoints ==
    pc = "done" =>
        \A k \in 1..Len(points) :
            IsSpike(points, epsilon, k) =>
                simplified = <<points[1], points[k], points[Len(points)]>>

\* the collinear points on both sides of the displaced point pts[k] are
\* within eps of the lines from the displaced point to the end points
SidesWithinEps(pts, eps, k) ==
    /\ \A j \in 1..k : WithinEps(pts[j], pts[1], pts[k], eps)
    /\ \A j \in k..Len(pts) : WithinEps(pts[j], pts[k], pts[Len(pts)], eps)

\* C8 (amended): such a path is simplified to at least 3 points, among them
\* the two end points (first and last) and the displaced point; they are
\* exactly 3 if and only if every other point is within epsilon of the line
\* from the displaced point to the end point on its side.
C8_SpikeKeepsAtLeastThreePoints ==
    pc = "done" =>
        \A k \in 1..Len(points) :
            IsSpike(points, epsilon, k) =>
                /\ Len(simplified) >= 3
                /\ simplified[1] = points[1]
                /\ simplified[Len(simplified)] = points[Len(points)]
                /\ \E m \in 2..(Len(simplified) - 1) : simplified[m] = points[k]
                /\ IsSubseq(simplified, points)
                /\ Len(simplified) = 3 <=> SidesWithinEps(points, epsilon, k)

\* C8 witness: the 100-point scenario (offset 50, epsilon 1) simplified to
\* more than 3 points.
C8_Witness ==
    /\ pc = "done"
    /\ Len(points) = ScenarioLen
    /\ epsilon = 1
    /\ \E k \in 1..Len(points) :
          IsSpike(points, epsilon, k) /\ points[k].y = ScenarioOffset
    /\ Len(simplified) > 3

-----------------------------------------------------------------------------
(* SpecSegment: one call segmentEdges(points, maxGap), then the selection  *)
(* of processImage (sort by descending length, slice(0, 5))                *)

\* Inputs are built from strokes laid out left to right.  A stroke is len
\* points: "flat" (x rising by 1, y = 1), "zigzag" (x rising by 1, y
\* alternating 1, 3) or "column" (one x, y = 1 .. len); gap is the x distance
\* from the end of the stroke before it.
MaxStrokes == 2

StrokeLens == {2, MinPathLen, MinPathLen + 1}

StrokeShapes == {"flat", "zigzag", "column"}

StrokeGaps == {1, 5}

Strokes == [len : StrokeLens, shape : StrokeShapes, gap : StrokeGaps]

\* the k-th point (k = 1 .. len) of a stroke that starts at x0
StrokePoint(st, x0, k) ==
    IF st.shape = "flat" THEN Pt(x0 + k - 1, 1)
    ELSE IF st.shape = "zigzag" THEN Pt(x0 + k - 1, 1 + 2 * ((k - 1) % 2))
    ELSE Pt(x0, k)

\* the x of the last point of a stroke that starts at x0
StrokeEnd(st, x0) == IF st.shape = "column" THEN x0 ELSE x0 + st.len - 1

\* the points of the strokes sts[k ..], the first starting gap behind x
RECURSIVE Layout(_, _, _)
Layout(sts, k, x) ==
    IF k > Len(sts) THEN <<>>
    ELSE LET x0 == x + sts[k].gap
         IN  [j \in 1..sts[k].len |-> StrokePoint(sts[k], x0, j)]
                 \o Layout(sts, k + 1, StrokeEnd(sts[k], x0))

Reverse(s) == [i \in 1..Len(s) |-> s[Len(s) + 1 - i]]

\* the caller's array: the strokes in scan order or in reverse order
SegmentInputs(sts) == {Layout(sts, 1, 0), Reverse(Layout(sts, 1, 0))}

SegmentGaps == {2, 5}

InitSegment ==
    /\ pc = "segmentEdges"
    /\ \E sts \in SeqsUpTo(Strokes, MaxStrokes) : points \in SegmentInputs(sts)
    /\ maxGap \in SegmentGaps
    /\ canvas = NoCanvas /\ threshold = 0 /\ edges = <<>>
    /\ paths = <<>> /\ topPaths = <<>> /\ epsilon = 0 /\ simplified = <<>>
    /\ degree = 0 /\ fit = NoFit /\ results = <<>> /\ mode = "NATURAL"

\* const segmentedPaths = segmentEdges(points, maxGap)
CallSegmentEdges ==
    /\ pc = "segmentEdges"
    /\ paths' = segmentEdges(points, maxGap)
    /\ pc' = "selectTop"
    /\ UNCHANGED <<canvas, threshold, edges, points, maxGap, topPaths,
                   epsilon, simplified, degree, fit, results, mode>>

\* const topPaths = segmentedPaths.sort(...).slice(0, 5): the sort is in
\* place, so segmentedPaths is left sorted
SelectTop ==
    /\ pc = "selectTop"
    /\ paths' = SortByLengthDesc(paths)
    /\ topPaths' = TopSlice(SortByLengthDesc(paths))
    /\ pc' = "done"
    /\ UNCHANGED <<canvas, threshold, edges, points, maxGap,
                   epsilon, simplified, degree, fit, results, mode>>

NextSegment == CallSegmentEdges \/ SelectTop

SpecSegment == InitSegment /\ [][NextSegment]_vars

(* Properties of segmentEdges                                              *)

\* C1: every path segmentEdges returns has more than 20 points, and so has
\* every path the selection keeps.
C1_PathsLongerThan20 ==
    /\ pc \in {"selectTop", "done"} =>
          \A i \in 1..Len(paths) : Len(paths[i]) > 20
    /\ pc = "done" =>
          \A i \in 1..Len(topPaths) : Len(topPaths[i]) > 20

\* C1 witness: 41 input points, of which a run of 21 is returned and selected
\* and the final run of exactly 20 is not.
C1_Witness ==
    /\ pc = "done"
    /\ Len(points) = 41
    /\ Len(topPaths) = 1
    /\ Len(topPaths[1]) = 21
    /\ topPaths[1][1].x < points[Len(points)].x
    /\ points[1].x < points[Len(points)].x

\* C2: in every returned path each pair of consecutive points is at distance
\* strictly less than maxGap.
C2_ConsecutiveWithinGap ==
    pc \in {"selectTop", "done"} =>
        \A i \in 1..Len(paths) :
            \A k \in 1..(Len(paths[i]) - 1) :
                SqDist(paths[i][k], paths[i][k + 1]) < maxGap * maxGap

\* C2 witness: a returned zigzag path (steps of length sqrt(5) < 5), while a
\* step of length exactly maxGap split the input.
C2_Witness ==
    /\ pc = "selectTop"
    /\ maxGap = 5
    /\ Len(paths) = 2
    /\ \E k \in 1..(Len(paths[1]) - 1) : SqDist(paths[1][k], paths[1][k + 1]) = 5
    /\ SqDist(paths[1][Len(paths[1])], paths[2][1]) = 25

\* the place of pts[i] in the stable sort of pts by ascending x
RankByX(pts, i) ==
    1 + Cardinality({j \in 1..Len(pts) :
                        \/ pts[j].x < pts[i].x
                        \/ pts[j].x = pts[i].x /\ j < i})

\* s is pts sorted by ascending x, equal x in their original order
IsStableSortByX(s, pts) ==
    /\ Len(s) = Len(pts)
    /\ \A i \in 1..Len(pts) : s[RankByX(pts, i)] = pts[i]

\* the indices of s where a run starts: 1, and every i whose point is at
\* distance >= gap from the point before it (the last of the current run)
RunStarts(s, gap) ==
    {i \in 1..Len(s) : i = 1 \/ gap <= 0 \/ SqDist(s[i - 1], s[i]) >= gap * gap}

\* the index of the last point of the run that starts at a
RunEnd(s, starts, a) ==
    LET later == {k \in starts : k > a}
    IN  IF later = {} THEN Len(s) ELSE Min(later) - 1

\* the starts of the runs of more than 20 points
LongRunStarts(s, starts) == {a \in starts : RunEnd(s, starts, a) - a + 1 > 20}

\* ps is exactly the runs of s that start at the indices of long, in order
IsRunsInOrder(ps, s, starts, long) ==
    /\ Len(ps) = Cardinality(long)
    /\ \A a \in long :
          LET k == Cardinality({b \in long : b <= a})
          IN  ps[k] = SubSeq(s, a, RunEnd(s, starts, a))

RECURSIVE Concat(_, _)
Concat(ps, k) == IF k > Len(ps) THEN <<>> ELSE ps[k] \o Concat(ps, k + 1)

\* what C11 says of the paths ps returned for the input pts, s being the
\* sorted input
IsSegmentation(ps, s, pts, gap) ==
    /\ IsStableSortByX(s, pts)
    /\ IsRunsInOrder(ps, s, RunStarts(s, gap), LongRunStarts(s, RunStarts(s, gap)))
    /\ \A i \in 1..Len(ps) : \A k \in 1..(Len(ps[i]) - 1) : ps[i][k].x <= ps[i][k + 1].x
    /\ IsSubseq(Concat(ps, 1), s)

\* C11: the paths segmentEdges returns are the runs of more than 20 points
\* of the input stably sorted by ascending x, in sorted order, a run ending
\* exactly before a point at distance >= maxGap from the point before it and
\* that point starting the next run; no point of a returned run is missing,
\* x never decreases along a path, and the paths one after another are a
\* subsequence of the sorted input.
C11_RunsOfSortedInput ==
    pc = "selectTop" => IsSegmentation(paths, SortByX(points), points, maxGap)

\* C11 witness: an input that is not in x order, with points of equal x,
\* falls into two runs, of which the one of more than 20 points is returned
\* and the other is dropped.
C11_Witness ==
    /\ pc = "selectTop"
    /\ Len(points) > 0
    /\ points[1].x > points[Len(points)].x
    /\ Cardinality(RunStarts(SortByX(points), maxGap)) = 2
    /\ Len(paths) = 1
    /\ Len(paths[1]) < Len(points)
    /\ \E k \in 1..(Len(paths[1]) - 1) : paths[1][k].x = paths[1][k + 1].x

-----------------------------------------------------------------------------
(* SpecEdges: one call getEdges(canvas, threshold)                         *)

\* largest canvas width and height
MaxW == 4

MaxH == 4

\* A canvas is a background colour with at most MaxMarks pixels painted in a
\* second colour.
MaxMarks == 2

\* RGBA: black, a red of luminance 30, white
Black == <<0, 0, 0, 255>>

Red == <<90, 0, 0, 255>>

White == <<255, 255, 255, 255>>

Colors == {Black, Red, White}

\* background and mark colour
ColorPairs == {<<Black, Red>>, <<Black, White>>, <<White, Red>>}

Thresholds == {0, 30, 100}

\* getImageData(0, 0, w, h).data of a w x h canvas of colour bg with the
\* pixels of index in marks of colour fg
Painted(w, h, hasCtx, bg, fg, marks) ==
    [width |-> w, height |-> h, ctx |-> hasCtx,
     data |-> [i \in 1..(4 * w * h) |->
                  LET px == (i - 1) \div 4
                  IN  IF px \in marks THEN fg[((i - 1) % 4) + 1]
                      ELSE bg[((i - 1) % 4) + 1]]]

\* the subsets of S of at most n elements
RECURSIVE SubsetsUpTo(_, _)
SubsetsUpTo(S, n) ==
    IF n = 0 THEN {{}}
    ELSE LET smaller == SubsetsUpTo(S, n - 1)
         IN  smaller \cup {m \cup {x} : m \in smaller, x \in S}

InitEdges ==
    /\ pc = "getEdges"
    /\ \/ \E w \in 1..MaxW, h \in 1..MaxH, c \in ColorPairs :
             \E marks \in SubsetsUpTo(0..(w * h - 1), MaxMarks) :
                canvas = Painted(w, h, TRUE, c[1], c[2], marks)
       \/ \E c \in Colors : canvas = Painted(3, 3, FALSE, c, c, {})
    /\ threshold \in Thresholds
    /\ edges = <<>> /\ points = <<>> /\ maxGap = 0
    /\ paths = <<>> /\ topPaths = <<>> /\ epsilon = 0 /\ simplified = <<>>
    /\ degree = 0 /\ fit = NoFit /\ results = <<>> /\ mode = "NATURAL"

\* const edges = getEdges(canvas, threshold)
CallGetEdges ==
    /\ pc = "getEdges"
    /\ edges' = getEdges(canvas, threshold)
    /\ pc' = "done"
    /\ UNCHANGED <<canvas, threshold, points, maxGap, paths, topPaths,
                   epsilon, simplified, degree, fit, results, mode>>

NextEdges == CallGetEdges

SpecEdges == InitEdges /\ [][NextEdges]_vars

(* Properties of getEdges                                                  *)

\* r + g + b of the pixel (x, y), three times its luminance
Lum3(cv, x, y) ==
    LET b == 4 * (y * cv.width + x)
    IN  cv.data[b + 1] + cv.data[b + 2] + cv.data[b + 3]

\* the square of three times the gradient magnitude at (x, y)
SqMag3(cv, x, y) ==
    LET gx == Lum3(cv, x + 1, y) - Lum3(cv, x - 1, y)
        gy == Lum3(cv, x, y + 1) - Lum3(cv, x, y - 1)
    IN  gx * gx + gy * gy

\* every pixel has the colour of pixel 0
Uniform(cv) ==
    \A i \in 1..Len(cv.data) : cv.data[i] = cv.data[((i - 1) % 4) + 1]

\* C9: every returned point is an interior pixel (1 <= x <= W - 2,
\* 1 <= y <= H - 2) whose gradient magnitude strictly exceeds the threshold,
\* the points are in row-major scan order, and a uniform buffer gives no
\* point for a positive threshold.
C9_InteriorEdgesInScanOrder ==
    pc = "done" =>
        /\ \A i \in 1..Len(edges) :
              /\ edges[i].x >= 1 /\ edges[i].x <= canvas.width - 2
              /\ edges[i].y >= 1 /\ edges[i].y <= canvas.height - 2
              /\ SqMag3(canvas, edges[i].x, edges[i].y) > 9 * threshold * threshold
        /\ \A i \in 1..(Len(edges) - 1) :
              \/ edges[i].y < edges[i + 1].y
              \/ edges[i].y = edges[i + 1].y /\ edges[i].x < edges[i + 1].x
        /\ (Uniform(canvas) /\ threshold > 0) => edges = <<>>

\* C9 witness: a 4 x 4 canvas with threshold 30 where an interior pixel is
\* returned and an interior pixel of magnitude exactly 30 is not.
C9_Witness ==
    /\ pc = "done"
    /\ canvas.width = 4 /\ canvas.height = 4
    /\ threshold = 30
    /\ Len(edges) >= 1
    /\ \E x \in 1..2, y \in 1..2 :
          /\ SqMag3(canvas, x, y) = 9 * 30 * 30
          /\ \A i \in 1..Len(edges) : edges[i] # Pt(x, y)

-----------------------------------------------------------------------------
(* SpecFit: one call fitPolynomial(points, degree, width, height)          *)

\* most points in a call
MaxFitLen == 3

\* largest degree
MaxDegree == 2

FitPoints == {Pt(px, py) : px \in 0..1, py \in 0..2}

FitWidths == {0, 2}

FitHeights == {0, 1, 2}

InitFit ==
    /\ pc = "fitPolynomial"
    /\ points \in SeqsUpTo(FitPoints, MaxFitLen)
    /\ degree \in 0..MaxDegree
    /\ canvas \in {[width |-> w, height |-> h, data |-> <<>>, ctx |-> TRUE] :
                      w \in FitWidths, h \in FitHeights}
    /\ threshold = 0 /\ edges = <<>> /\ maxGap = 0
    /\ paths = <<>> /\ topPaths = <<>> /\ epsilon = 0 /\ simplified = <<>>
    /\ fit = NoFit /\ results = <<>> /\ mode = "NATURAL"

\* fitPolynomial(points, degree, canvas.width, canvas.height)
CallFitPolynomial ==
    /\ pc = "fitPolynomial"
    /\ fit' = fitPolynomial(points, degree, canvas.width, canvas.height)
    /\ pc' = "done"
    /\ UNCHANGED <<canvas, threshold, edges, points, maxGap, paths, topPaths,
                   epsilon, simplified, degree, results, mode>>

NextFit == CallFitPolynomial

SpecFit == InitFit /\ [][NextFit]_vars

(* Properties of fitPolynomial                                             *)

\* the result is the sentinel of too few points
IsSentinel(r) ==
    /\ r.formula.head = "Insufficient Data"
    /\ r.points = <<>>
    /\ r.coefficients = <<>>
    /\ r.type = "polynomial"

\* C6: the result is the sentinel exactly when there are fewer than
\* degree + 1 points; otherwise it is a result with degree + 1 coefficients.
C6_SentinelIffTooFewPoints ==
    pc = "done" =>
        /\ IsSentinel(fit) <=> Len(points) < degree + 1
        /\ Len(points) >= degree + 1 =>
              /\ Len(fit.coefficients) = degree + 1
              /\ fit.formula.head # "Insufficient Data"
              /\ fit.type = "polynomial"

\* C6 witness: exactly `degree` points, one short, give the sentinel.
C6_Witness ==
    /\ pc = "done"
    /\ degree >= 1
    /\ Len(points) = degree
    /\ IsSentinel(fit)

\* the sum of the y of the points
RECURSIVE SumY(_, _)
SumY(pts, k) == IF k > Len(pts) THEN 0 ELSE pts[k].y + SumY(pts, k + 1)

\* C10 (as claimed): a degree-0 fit of a non-empty point set gives one
\* coefficient, the arithmetic mean of the y of the points.  The claim is for
\* any width and height; it is stated here for the canvases of positive
\* height only, where every value is finite.
C10_Degree0IsMeanOfY ==
    (pc = "done" /\ degree = 0 /\ Len(points) > 0 /\ canvas.height > 0) =>
        fit.coefficients = <<Norm(SumY(points, 1), Len(points))>>

\* C10 (amended): a degree-0 fit of a non-empty point set gives one
\* coefficient, the arithmetic mean of the normalised y-values y / height:
\* the mean of the y of the points divided by height when height is not 0,
\* and no finite number when height is 0.
C10_Degree0IsMeanOfNormalisedY ==
    (pc = "done" /\ degree = 0 /\ Len(points) > 0) =>
        /\ Len(fit.coefficients) = 1
        /\ canvas.height # 0 =>
              /\ IsFinite(fit.coefficients[1])
              /\ fit.coefficients[1][1] * Len(points) * canvas.height
                    = SumY(points, 1) * fit.coefficients[1][2]
        /\ canvas.height = 0 => ~IsFinite(fit.coefficients[1])

\* C10 witness: three points of different y fitted on a canvas of height 2.
C10_Witness ==
    /\ pc = "done"
    /\ degree = 0
    /\ Len(points) = 3
    /\ canvas.height = 2
    /\ points[1].y # points[2].y
    /\ fit.coefficients = <<Norm(SumY(points, 1), 6)>>
    /\ SumY(points, 1) > 0

-----------------------------------------------------------------------------
(* Spec: one run of processImage, src/unnamed/part_000:45-124, from the    *)
(* canvas as drawn (lines 52-71) to setFittingResults                      *)

\* The canvas is black with white horizontal bars, one pixel high, laid out
\* left to right BarGap pixels apart, on rows 2 and 3 in turn; a bar of len
\* pixels has an outline of 2 * len + 4 edge pixels.  The outlines of two
\* neighbouring bars are more than 5 and less than 15 pixels apart.
MaxBars == 6

BarLens == {9, 10}

BarGap == 12

BarCanvasHeight == 6

\* the x of the first pixel of bar k
RECURSIVE BarStart(_, _)
BarStart(lens, k) ==
    IF k = 1 THEN 2 ELSE BarStart(lens, k - 1) + lens[k - 1] + BarGap

BarRow(k) == 2 + (k % 2)

BarCanvasWidth(lens) ==
    IF Len(lens) = 0 THEN 4 ELSE BarStart(lens, Len(lens)) + lens[Len(lens)] + 2

BarCanvas(lens, hasCtx) ==
    LET w == BarCanvasWidth(lens)
        bars == UNION {{y * w + x : x \in BarStart(lens, k)..(BarStart(lens, k) + lens[k] - 1),
                                   y \in {BarRow(k)}} : k \in 1..Len(lens)}
    IN  Painted(w, BarCanvasHeight, hasCtx, Black, White, bars)

\* AppMode
AppModes == {"NATURAL", "ARCHITECTURAL"}

\* state.rationalIntensity: the degree to fit
Intensities == {1, 5}

\* state.edgeDensity
EdgeDensity == 30

\* state.mode === AppMode.ARCHITECTURAL ? 5 : 15 (line 75)
ModeGap(m) == IF m = "ARCHITECTURAL" THEN 5 ELSE 15

\* state.mode === AppMode.ARCHITECTURAL ? 2 : 10 (line 83)
ModeEpsilon(m) == IF m = "ARCHITECTURAL" THEN 2 ELSE 10

Init ==
    /\ pc = "processImage"
    /\ \/ \E lens \in SeqsUpTo(BarLens, MaxBars) : canvas = BarCanvas(lens, TRUE)
       \/ canvas = BarCanvas(<<>>, FALSE)
    /\ mode \in AppModes
    /\ degree \in Intensities
    /\ threshold = EdgeDensity
    /\ edges = <<>> /\ points = <<>> /\ maxGap = 0
    /\ paths = <<>> /\ topPaths = <<>> /\ epsilon = 0 /\ simplified = <<>>
    /\ fit = NoFit /\ results = <<>>

\* if (!ctx) return (line 50)
ReturnWithoutContext ==
    /\ pc = "processImage"
    /\ ~canvas.ctx
    /\ pc' = "done"
    /\ UNCHANGED <<canvas, threshold, edges, points, maxGap, paths, topPaths,
                   epsilon, simplified, degree, fit, results, mode>>

\* The caller's arrays after a call.  segmentEdges reads points.length and
\* spreads points into a new array, which is what sort reorders (lines 42,
\* 45); the mutant is points.sort(...) without the copy.
ArrayAfterSortInPlace(pts, gap) == SortByX(pts)

ArrayAfterSegmentEdges(pts, gap) == pts

\* simplifyPoints reads points.length, points[i] and points.slice(...)
\* (part_001:97-120), each recursive call on a fresh slice
ArrayAfterSimplifyPoints(pts, eps) == pts

\* fitPolynomial reads points.length and points.map(...) (part_001:40, 45);
\* solveMatrix swaps and eliminates in A and B, built at part_001:48-49
ArrayAfterFitPolynomial(pts, deg, width, height) == pts

\* const edges = getEdges(canvas, state.edgeDensity) (line 74)
ExtractEdges ==
    /\ pc = "processImage"
    /\ canvas.ctx
    /\ edges' = getEdges(canvas, threshold)
    /\ pc' = "segment"
    /\ UNCHANGED <<canvas, threshold, points, maxGap, paths, topPaths,
                   epsilon, simplified, degree, fit, results, mode>>

\* const segmentedPaths = segmentEdges(edges, ...) (line 75)
SegmentPaths ==
    /\ pc = "segment"
    /\ maxGap' = ModeGap(mode)
    /\ paths' = segmentEdges(edges, ModeGap(mode))
    /\ edges' = ArrayAfterSegmentEdges(edges, ModeGap(mode))
    /\ pc' = "select"
    /\ UNCHANGED <<canvas, threshold, points, topPaths,
                   epsilon, simplified, degree, fit, results, mode>>

\* const topPaths = segmentedPaths.sort(...).slice(0, 5) (lines 78-80)
SelectTopPaths ==
    /\ pc = "select"
    /\ paths' = SortByLengthDesc(paths)
    /\ topPaths' = TopSlice(SortByLengthDesc(paths))
    /\ pc' = "fit"
    /\ UNCHANGED <<canvas, threshold, edges, points, maxGap,
                   epsilon, simplified, degree, fit, results, mode>>

\* topPaths.map(path => fitPolynomial(simplifyPoints(path, ...), ...)) and
\* setFittingResults(results) (lines 82-87); simplified holds the arrays
\* that were passed to fitPolynomial, as they are after the calls
FitPath(path, m, deg, cv) ==
    fitPolynomial(simplifyPoints(path, ModeEpsilon(m)), deg, cv.width, cv.height)

FitTopPaths ==
    /\ pc = "fit"
    /\ epsilon' = ModeEpsilon(mode)
    /\ results' = [i \in 1..Len(topPaths) |-> FitPath(topPaths[i], mode, degree, canvas)]
    /\ topPaths' = [i \in 1..Len(topPaths) |->
                       ArrayAfterSimplifyPoints(topPaths[i], ModeEpsilon(mode))]
    /\ simplified' = [i \in 1..Len(topPaths) |->
                         ArrayAfterFitPolynomial(simplifyPoints(topPaths[i], ModeEpsilon(mode)),
                                                 degree, canvas.width, canvas.height)]
    /\ pc' = "done"
    /\ UNCHANGED <<canvas, threshold, edges, points, maxGap, paths,
                   degree, fit, mode>>

Next ==
    \/ ReturnWithoutContext
    \/ ExtractEdges
    \/ SegmentPaths
    \/ SelectTopPaths
    \/ FitTopPaths

Spec == Init /\ [][Next]_vars

\* the paths as segmentEdges returned them, before the sort in place
Segmented == segmentEdges(edges, ModeGap(mode))

\* how many of the paths of ps satisfy Longer
CountPaths(ps, Longer(_)) == Cardinality({j \in 1..Len(ps) : Longer(ps[j])})

\* The i-th of the selected paths is an i-th longest of the segmented paths:
\* fewer than i paths are strictly longer and at least i are as long.
IsIthLongest(ps, path, i) ==
    LET Longer(q) == Len(q) > Len(path)
        AsLong(q) == Len(q) >= Len(path)
    IN  CountPaths(ps, Longer) < i /\ CountPaths(ps, AsLong) >= i

\* What C7 says of the selected paths and the results, seg being the
\* segmented paths in their original order.
SelectedAndFitted(seg) ==
    /\ Len(results) <= MaxPaths
    /\ Len(results) = (IF Len(seg) < MaxPaths THEN Len(seg) ELSE MaxPaths)
    /\ Len(topPaths) = Len(results)
    /\ \A i \in 1..Len(topPaths) :
          /\ \E j \in 1..Len(seg) : seg[j] = topPaths[i]
          /\ IsIthLongest(seg, topPaths[i], i)
          /\ \A k \in 1..Len(topPaths) : topPaths[k] = topPaths[i] => k = i
          /\ i > 1 => Len(topPaths[i - 1]) >= Len(topPaths[i])
          /\ results[i] = fitPolynomial(simplifyPoints(topPaths[i], ModeEpsilon(mode)),
                                        degree, canvas.width, canvas.height)
    /\ Len(edges) = 0 => results = <<>>

\* C7: when processImage has run, there are at most 5 results (as many as
\* there are segmented paths, if fewer); the selected paths are distinct
\* segmented paths in order of descending original length, the i-th being an
\* i-th longest; result i is the fit of the simplification of the i-th
\* selected path; an empty edge list gives an empty result list.
C7_TopFiveByLengthThenFit ==
    (pc = "done" /\ canvas.ctx) => SelectedAndFitted(Segmented)

\* seg holds more than five paths, a longer one after a shorter one
MoreThanFiveUnsorted(seg) ==
    /\ Len(seg) > MaxPaths
    /\ \E j \in 2..Len(seg) : Len(seg[j]) > Len(seg[j - 1])

\* More than five paths were segmented, a longer one after a shorter one, and
\* five polynomial fits came out, not all of them the same.
C7_Witness ==
    /\ pc = "done"
    /\ Len(results) = MaxPaths
    /\ Len(topPaths[1]) > Len(topPaths[MaxPaths])
    /\ results[1].coefficients # <<>>
    /\ results[1] # results[2]
    /\ MoreThanFiveUnsorted(Segmented)

=============================================================================
